---- MODULE Spec2Model ----
(***************************************************************************)
(* Model of src/etl_scripts/procedures.py: fetch_daily_stock_articles      *)
(* (the Fetcher) and cleaning_fetched_articles (the Cleaner).              *)
(*                                                                         *)
(* A text is a sequence of characters.  The alphabet keeps the three       *)
(* characters the Cleaner rewrites (line feed, carriage return, backslash) *)
(* and writes the failure marker                                           *)
(*   "Error when downloading and parsing article"                          *)
(* as the two-chunk sequence <<M1, M2>> ("Error when downloading" and      *)
(* " and parsing article"), so that a text can hold the marker, half of    *)
(* it, or the two halves separated by another character.                   *)
(*                                                                         *)
(* A DataFrame is [columns, rows]: the ordered column labels and the       *)
(* ordered rows, each row a function from the column labels to the cells.  *)
(***************************************************************************)
EXTENDS Integers, Sequences, FiniteSets, TLC

VARIABLES pc, stock_code, news_items, web, full_texts, image_urls, k,
          sleeps, clock, fetch, df, clean, again

vars == <<pc, stock_code, news_items, web, full_texts, image_urls, k,
          sleeps, clock, fetch, df, clean, again>>

\* ------------------------------------------------------------------ bounds
\* results the search returns at most
MaxArticles == 2
\* rows of a raw table given to the Cleaner
MaxRows == 2
\* size of the input: characters of article text (plus malformed cells)
MaxSize == 3

\* --------------------------------------------------------------- constants
SleepSeconds == 10

LF == "\n"
CR == "\r"
BS == "\\"
PIPE == "|"
M1 == "Error when downloading"
M2 == " and parsing article"

Marker == <<M1, M2>>

Chars == {LF, CR, BS, M1, M2}

Urls == <<"u1", "u2", "u3", "u4", "u5", "u6">>

Tickers == {"BBCA"}

NoneValue == <<"None">>

GoodDate == [kind |-> "str", value |-> "Mon, 02 Nov 2026 07:00:00 GMT"]
BadDate == [kind |-> "str", value |-> "n/a"]

GoodPublisher == [title |-> "Kompas", href |-> "https://kompas.com"]
BadPublisher == [href |-> "https://kompas.com"]

GNewsKeys == <<"title", "description", "published date", "url", "publisher">>

\* a column list that also keeps the publisher column
FinalColumnsWithPublisher ==
  <<"entity", "source_publisher", "title", "full_text", "url",
    "published_time", "published_date", "image_url", "publisher">>

\* the column list of line 103
FinalColumns == <<"entity", "source_publisher", "title", "full_text", "url",
                  "published_time", "published_date", "image_url">>

\* ----------------------------------------------------------------- helpers
Range(s) == {s[i] : i \in DOMAIN s}

RECURSIVE SumLen(_)
SumLen(ts) == IF ts = <<>> THEN 0 ELSE Len(Head(ts)) + SumLen(Tail(ts))

TextsUpTo(n) == UNION {[1..m -> Chars] : m \in 0..n}

\* str.contains(pat): pat occurs as a contiguous part of t (line 88; the
\* pattern has no regex metacharacter)
Contains(t, pat) ==
  \E i \in 1..(Len(t) - Len(pat) + 1) : SubSeq(t, i, i + Len(pat) - 1) = pat

\* Series.replace(ch, rep, regex=True) on one cell: every occurrence of the
\* one-character pattern ch is replaced by rep (lines 91-93)
RECURSIVE ReplaceAll(_, _, _)
ReplaceAll(t, ch, rep) ==
  IF t = <<>> THEN <<>>
  ELSE (IF Head(t) = ch THEN rep ELSE <<Head(t)>>) \o ReplaceAll(Tail(t), ch, rep)

\* lines 91-93 without the carriage-return pass of line 92
NormalizeTextNoCR(t) ==
  ReplaceAll(ReplaceAll(t, LF, <<PIPE, PIPE>>), BS, <<>>)

\* lines 91-93
NormalizeText(t) ==
  ReplaceAll(ReplaceAll(ReplaceAll(t, LF, <<PIPE, PIPE>>), CR, <<PIPE, PIPE>>), BS, <<>>)

\* the f-string of lines 56, 58, 59
Placeholder(url, e) == Marker \o <<" from ", url, ": ", e>>

\* ------------------------------------------------------------- DataFrames
EmptyFrame == [columns |-> <<>>, rows |-> <<>>]

HasColumn(t, c) == c \in Range(t.columns)

\* pd.DataFrame(news_items), line 32: the columns are the keys of the items;
\* an empty list gives a frame with no rows and no columns
DataFrame(items) ==
  [columns |-> IF items = <<>> THEN <<>> ELSE GNewsKeys, rows |-> items]

\* frame[name] = values: an existing column is overwritten in place, a new
\* one is appended
SetColumn(t, name, values) ==
  [columns |-> IF HasColumn(t, name) THEN t.columns ELSE Append(t.columns, name),
   rows |-> [i \in DOMAIN t.rows |->
               [c \in DOMAIN t.rows[i] \cup {name} |->
                  IF c = name THEN values[i] ELSE t.rows[i][c]]]]

\* frame[boolean mask], line 88
FilterRows(t, Keep(_)) == [columns |-> t.columns, rows |-> SelectSeq(t.rows, Keep)]

\* frame.rename(columns={old: new}), line 96
Rename(t, old, new) ==
  [columns |-> [i \in DOMAIN t.columns |->
                  IF t.columns[i] = old THEN new ELSE t.columns[i]],
   rows |-> [i \in DOMAIN t.rows |->
               [c \in {IF d = old THEN new ELSE d : d \in DOMAIN t.rows[i]} |->
                  IF c = new /\ old \in DOMAIN t.rows[i]
                  THEN t.rows[i][old] ELSE t.rows[i][c]]]]

\* a projection that keeps the listed columns in the order of the frame
ProjectInFrameOrder(t, cols) ==
  [columns |-> SelectSeq(t.columns, LAMBDA c : c \in Range(cols)),
   rows |-> [i \in DOMAIN t.rows |-> [c \in Range(cols) |-> t.rows[i][c]]]]

\* frame[[c1, ..., cn]], line 103
Project(t, cols) ==
  [columns |-> cols,
   rows |-> [i \in DOMAIN t.rows |-> [c \in Range(cols) |-> t.rows[i][c]]]]

\* results of a call: the value of the local fetched_news_df when the call
\* ended, returned to the caller only when status = "returned"
Pending == [status |-> "pending", error |-> "none", line |-> 0, frame |-> EmptyFrame]
Return(t, l) == [status |-> "returned", error |-> "none", line |-> l, frame |-> t]
Raise(e, l, t) == [status |-> "raised", error |-> e, line |-> l, frame |-> t]

\* pd.to_datetime(..., errors="coerce"): nothing raises
ParseableCoerce(v) == TRUE

\* pd.to_datetime on one cell, line 99
Parseable(v) == v.kind = "Timestamp" \/ v = GoodDate
ToDatetime(v) ==
  IF v.kind = "Timestamp" THEN v
  ELSE [kind |-> "Timestamp", date |-> "2026-11-02", time |-> "07:00:00"]

\* Timestamp.date(), line 100
DateOf(ts) == [kind |-> "date", date |-> ts.date]

\* str.startswith in place of str.contains
HasMarkerAtStart(row) ==
  Len(row["full_text"]) >= Len(Marker)
  /\ SubSeq(row["full_text"], 1, Len(Marker)) = Marker

\* the mask of line 88, before negation
HasMarker(row) == Contains(row["full_text"], Marker)
NoMarker(row) == ~HasMarker(row)

\* lines 85-93: copy, drop the marker rows, normalise full_text
FilterAndNormalize(t) ==
  LET kept == FilterRows(t, NoMarker)
  IN SetColumn(kept, "full_text",
               [i \in DOMAIN kept.rows |-> NormalizeText(kept.rows[i]["full_text"])])

\* lines 85-105
cleaning_fetched_articles(t) ==
  IF ~HasColumn(t, "full_text") THEN Raise("KeyError", 88, t)
  ELSE
  LET f1 == FilterAndNormalize(t)
      f2 == Rename(f1, "published date", "published_time")
  IN
  IF ~HasColumn(f2, "publisher") THEN Raise("KeyError", 97, f2)
  ELSE IF \E i \in DOMAIN f2.rows : "title" \notin DOMAIN f2.rows[i]["publisher"]
  THEN Raise("KeyError", 97, f2)
  ELSE
  LET f3 == SetColumn(f2, "source_publisher",
                      [i \in DOMAIN f2.rows |-> f2.rows[i]["publisher"].title])
  IN
  IF ~HasColumn(f3, "published_time") THEN Raise("KeyError", 99, f3)
  ELSE IF \E i \in DOMAIN f3.rows : ~Parseable(f3.rows[i]["published_time"])
  THEN Raise("ValueError", 99, f3)
  ELSE
  LET f4 == SetColumn(f3, "published_time",
                      [i \in DOMAIN f3.rows |-> ToDatetime(f3.rows[i]["published_time"])])
      f5 == SetColumn(f4, "published_date",
                      [i \in DOMAIN f4.rows |-> DateOf(f4.rows[i]["published_time"])])
  IN
  IF \E c \in Range(FinalColumns) : ~HasColumn(f5, c) THEN Raise("KeyError", 103, f5)
  ELSE Return(Project(f5, FinalColumns), 105)


\* ------------------------------------------------- the search backend
\* one item of google_news.get_news (line 31)
NewsItem(i, pub, date) ==
  [c \in Range(GNewsKeys) |->
     CASE c = "title" -> "title"
       [] c = "description" -> "description"
       [] c = "published date" -> date
       [] c = "url" -> Urls[i]
       [] c = "publisher" -> pub]

\* ------------------------------------------------------- the Fetcher
Init ==
  /\ pc = "search"
  /\ stock_code \in Tickers
  /\ news_items = <<>>
  /\ web = <<>>
  /\ full_texts = <<>>
  /\ image_urls = <<>>
  /\ k = 0
  /\ sleeps = 0
  /\ clock = 0
  /\ fetch = Pending
  /\ df = EmptyFrame
  /\ clean = Pending
  /\ again = Pending

\* line 31 raises: the search call itself fails
SearchFails ==
  /\ pc = "search"
  /\ fetch' = Raise("SearchError", 31, EmptyFrame)
  /\ pc' = "exit"
  /\ UNCHANGED <<stock_code, news_items, web, full_texts, image_urls, k,
                 sleeps, clock, df, clean, again>>

\* lines 23-36: the search returns 0..max_articles items
SearchReturns ==
  /\ pc = "search"
  /\ \E n \in 0..MaxArticles :
       news_items' = [i \in 1..n |-> NewsItem(i, GoodPublisher, GoodDate)]
  /\ full_texts' = <<>>
  /\ image_urls' = <<>>
  /\ pc' = "loop"
  /\ UNCHANGED <<stock_code, web, k, sleeps, clock, fetch, df, clean, again>>

\* line 39: fetched_news_df["url"]
LoopEnter ==
  /\ pc = "loop"
  /\ IF ~HasColumn(DataFrame(news_items), "url")
     THEN /\ fetch' = Raise("KeyError", 39, DataFrame(news_items))
          /\ pc' = "exit"
     ELSE /\ pc' = IF k < Len(news_items) THEN "attempt" ELSE "assemble"
          /\ UNCHANGED fetch
  /\ UNCHANGED <<stock_code, news_items, web, full_texts, image_urls, k,
                 sleeps, clock, df, clean, again>>

CurrentUrl == news_items[k + 1]["url"]

CharsLeft == MaxSize - SumLen([i \in DOMAIN web |-> web[i].text])

ErrorDetail(failAt) ==
  CASE failAt = "download" -> "download failed"
    [] failAt = "parse" -> "parse failed"
    [] failAt = "text" -> "no text"
    [] failAt = "image" -> "no images"

\* lines 41-53, nothing raises
AttemptSucceeds ==
  /\ pc = "attempt"
  /\ \E text \in TextsUpTo(CharsLeft), image \in {NoneValue, <<"img">>} :
       /\ web' = Append(web, [url |-> CurrentUrl, failAt |-> "none", text |-> text])
       /\ full_texts' = Append(full_texts, text)
       /\ image_urls' = Append(image_urls, image)
  /\ pc' = "sleep"
  /\ UNCHANGED <<stock_code, news_items, k, sleeps, clock, fetch, df, clean, again>>

\* lines 44-48 raise before line 49 ran; lines 55-59
AttemptFailsBeforeAppend ==
  /\ pc = "attempt"
  /\ \E failAt \in {"download", "parse", "text"} :
       /\ web' = Append(web, [url |-> CurrentUrl, failAt |-> failAt, text |-> <<>>])
       /\ full_texts' = Append(full_texts, Placeholder(CurrentUrl, ErrorDetail(failAt)))
       /\ image_urls' = Append(image_urls, Placeholder(CurrentUrl, ErrorDetail(failAt)))
  /\ pc' = "sleep"
  /\ UNCHANGED <<stock_code, news_items, k, sleeps, clock, fetch, df, clean, again>>

\* line 52 raises after line 49 ran; lines 55-59
AttemptFailsAfterAppend ==
  /\ pc = "attempt"
  /\ \E text \in TextsUpTo(CharsLeft) :
       /\ web' = Append(web, [url |-> CurrentUrl, failAt |-> "image", text |-> text])
       /\ full_texts' = full_texts \o <<text, Placeholder(CurrentUrl, ErrorDetail("image"))>>
       /\ image_urls' = Append(image_urls, Placeholder(CurrentUrl, ErrorDetail("image")))
  /\ pc' = "sleep"
  /\ UNCHANGED <<stock_code, news_items, k, sleeps, clock, fetch, df, clean, again>>

\* a pause between attempts only: none after the last result
SleepBetweenAttempts ==
  /\ pc = "sleep"
  /\ IF k + 1 < Len(news_items)
     THEN clock' = clock + SleepSeconds /\ sleeps' = sleeps + 1
     ELSE UNCHANGED <<clock, sleeps>>
  /\ k' = k + 1
  /\ pc' = IF k + 1 < Len(news_items) THEN "attempt" ELSE "assemble"
  /\ UNCHANGED <<stock_code, news_items, web, full_texts, image_urls, fetch,
                 df, clean, again>>

\* line 62, then the next url of line 39
Sleep ==
  /\ pc = "sleep"
  /\ clock' = clock + SleepSeconds
  /\ sleeps' = sleeps + 1
  /\ k' = k + 1
  /\ pc' = IF k + 1 < Len(news_items) THEN "attempt" ELSE "assemble"
  /\ UNCHANGED <<stock_code, news_items, web, full_texts, image_urls, fetch,
                 df, clean, again>>

\* lines 65-71: a list whose length is not the number of rows raises
Assemble ==
  /\ pc = "assemble"
  /\ LET t0 == DataFrame(news_items)
     IN IF Len(full_texts) # Len(t0.rows)
        THEN /\ fetch' = Raise("ValueError", 65, t0)
             /\ pc' = "exit"
        ELSE LET t1 == SetColumn(t0, "full_text", full_texts)
             IN IF Len(image_urls) # Len(t1.rows)
                THEN /\ fetch' = Raise("ValueError", 66, t1)
                     /\ pc' = "exit"
                ELSE /\ fetch' = Return(SetColumn(SetColumn(t1, "image_url", image_urls),
                                                  "entity",
                                                  [i \in DOMAIN t1.rows |-> stock_code]),
                                        71)
                     /\ pc' = "script"
  /\ UNCHANGED <<stock_code, news_items, web, full_texts, image_urls, k,
                 sleeps, clock, df, clean, again>>

\* line 111: the script cleans what line 110 fetched
ScriptClean ==
  /\ pc = "script"
  /\ df' = fetch.frame
  /\ clean' = cleaning_fetched_articles(fetch.frame)
  /\ pc' = "exit"
  /\ UNCHANGED <<stock_code, news_items, web, full_texts, image_urls, k,
                 sleeps, clock, fetch, again>>

Next ==
  \/ SearchFails
  \/ SearchReturns
  \/ LoopEnter
  \/ AttemptSucceeds
  \/ AttemptFailsBeforeAppend
  \/ AttemptFailsAfterAppend
  \/ Sleep
  \/ Assemble
  \/ ScriptClean

Spec == Init /\ [][Next]_vars

\* ------------------------------------- the Cleaner on any raw table
RawColumns == GNewsKeys \o <<"full_text", "image_url", "entity">>

DropColumn(t, c) ==
  [columns |-> SelectSeq(t.columns, LAMBDA d : d # c),
   rows |-> [i \in DOMAIN t.rows |->
               [d \in DOMAIN t.rows[i] \ {c} |-> t.rows[i][d]]]]

RECURSIVE SumTo(_, _)
SumTo(lens, i) == IF i = 0 THEN 0 ELSE lens[i] + SumTo(lens, i - 1)

\* a raw table of r rows: row i has the i-th url, the i-th piece of flat
\* (cut at lens) as full_text, and the publisher and date of meta[i]
RawTable(ticker, r, flat, lens, meta) ==
  [columns |-> RawColumns,
   rows |-> [i \in 1..r |->
               [c \in Range(RawColumns) |->
                  CASE c = "full_text" ->
                         SubSeq(flat, SumTo(lens, i - 1) + 1, SumTo(lens, i))
                    [] c = "image_url" -> NoneValue
                    [] c = "entity" -> ticker
                    [] OTHER -> NewsItem(i, meta[i].pub, meta[i].date)[c]]]]

Metas == [pub : {GoodPublisher, BadPublisher}, date : {GoodDate, BadDate}]

\* the number of malformed cells of the rows of meta
RECURSIVE Defects(_, _)
Defects(meta, i) ==
  IF i = 0 THEN 0
  ELSE (IF meta[i].pub = BadPublisher THEN 1 ELSE 0)
       + (IF meta[i].date = BadDate THEN 1 ELSE 0)
       + Defects(meta, i - 1)

\* every raw table of at most MaxRows rows whose size (the characters of its
\* full_text cells plus its malformed cells) is at most MaxSize, with all
\* the columns the Fetcher gives, or without description, or without
\* publisher
InitClean ==
  /\ pc = "call"
  /\ stock_code \in Tickers
  /\ \E r \in 0..MaxRows, flat \in TextsUpTo(MaxSize) :
       \E lens \in [1..r -> 0..Len(flat)] :
         /\ SumTo(lens, r) = Len(flat)
         /\ \E meta \in [1..r -> Metas] :
              /\ Len(flat) + Defects(meta, r) <= MaxSize
              /\ \E drop \in {"none", "description", "publisher"} :
                   df = DropColumn(RawTable(stock_code, r, flat, lens, meta), drop)
  /\ news_items = <<>>
  /\ web = <<>>
  /\ full_texts = <<>>
  /\ image_urls = <<>>
  /\ k = 0
  /\ sleeps = 0
  /\ clock = 0
  /\ fetch = Pending
  /\ clean = Pending
  /\ again = Pending

\* cleaning_fetched_articles(df)
CallClean ==
  /\ pc = "call"
  /\ clean' = cleaning_fetched_articles(df)
  /\ pc' = "called"
  /\ UNCHANGED <<stock_code, news_items, web, full_texts, image_urls, k,
                 sleeps, clock, fetch, df, again>>

\* cleaning_fetched_articles applied to the table it returned
CallCleanAgain ==
  /\ pc = "called"
  /\ clean.status = "returned"
  /\ again' = cleaning_fetched_articles(clean.frame)
  /\ pc' = "exit"
  /\ UNCHANGED <<stock_code, news_items, web, full_texts, image_urls, k,
                 sleeps, clock, fetch, df, clean>>

NextClean ==
  \/ CallClean
  \/ CallCleanAgain

SpecClean == InitClean /\ [][NextClean]_vars


\* ================================================================ claims
\* the raw rows the marker filter of line 88 lets through, in order
Survivors == SelectSeq(df.rows, LAMBDA r : ~Contains(r["full_text"], Marker))

FetchEnded == fetch.status # "pending"

\* the row of position i of a returned fetch
FetchedRow(i) == fetch.frame.rows[i]

\* C1: whatever the search returns (0..max_articles results) and whatever
\* succeeds or fails per article, the Fetcher returns one row per search
\* result, in search order, each with full_text, image_url and
\* entity = ticker; it raises only when the search call itself raised.
C1_FetchReturnsOneRowPerResult ==
  FetchEnded =>
    \/ fetch.status = "raised" /\ fetch.error = "SearchError"
    \/ /\ fetch.status = "returned"
       /\ Len(fetch.frame.rows) = Len(news_items)
       /\ \A i \in DOMAIN news_items :
            /\ FetchedRow(i)["url"] = news_items[i]["url"]
            /\ {"full_text", "image_url", "entity"} \subseteq DOMAIN FetchedRow(i)
            /\ FetchedRow(i)["entity"] = stock_code

\* C2: when the attempt at position i fails (download, parse or extraction)
\* row i carries the same placeholder in full_text and image_url, the rows
\* of the other positions carry what their own attempt produced, and every
\* position was attempted.
C2_FailedRowGetsPlaceholderInBoth ==
  (FetchEnded /\ \E i \in DOMAIN web : web[i].failAt # "none") =>
    /\ fetch.status = "returned"
    /\ Len(web) = Len(news_items)
    /\ \A i \in DOMAIN web :
         IF web[i].failAt # "none"
         THEN /\ FetchedRow(i)["full_text"] = Placeholder(web[i].url, ErrorDetail(web[i].failAt))
              /\ FetchedRow(i)["image_url"] = FetchedRow(i)["full_text"]
         ELSE FetchedRow(i)["full_text"] = web[i].text

\* the urls of the articles that were fetched successfully, in search order
SuccessfulUrls ==
  LET ok == SelectSeq(web, LAMBDA w : w.failAt = "none")
  IN [i \in DOMAIN ok |-> ok[i].url]

\* C4: Fetcher then Cleaner on n >= 1 results of which k fail to download or
\* parse: the Fetcher returns n rows and the Cleaner returns exactly the
\* n - k rows of the articles fetched successfully, whatever their text.
C4_CleanerKeepsExactlyTheSuccessful ==
  (/\ pc = "exit"
   /\ Len(news_items) >= 1
   /\ Len(web) = Len(news_items)
   /\ \A i \in DOMAIN web : web[i].failAt \in {"none", "download", "parse"}) =>
    /\ fetch.status = "returned"
    /\ Len(fetch.frame.rows) = Len(news_items)
    /\ clean.status = "returned"
    /\ Len(clean.frame.rows) = Len(SuccessfulUrls)
    /\ \A i \in DOMAIN clean.frame.rows : clean.frame.rows[i]["url"] = SuccessfulUrls[i]

\* C10: after each iteration of the per-url loop, whichever statement of the
\* try block raised, one element was appended to full_texts and one to
\* image_urls: after k iterations both lengths are k, and at loop exit both
\* are the number of rows.
C10_ListsGrowByOnePerIteration ==
  /\ pc \in {"attempt", "assemble"} => Len(full_texts) = k /\ Len(image_urls) = k
  /\ pc = "assemble" => Len(full_texts) = Len(news_items) /\ Len(image_urls) = Len(news_items)

\* C9: results are attempted one at a time in search order; after every
\* attempt, successful or failed, there is exactly one pause of 10 time
\* units before the next attempt starts; n results make n pauses.
C9_OnePauseAfterEveryAttempt ==
  /\ [](/\ \A i \in DOMAIN web : web[i].url = news_items[i]["url"]
        /\ Len(web) - sleeps \in {0, 1}
        /\ (Len(web) - sleeps = 1) <=> (pc = "sleep")
        /\ clock = 10 * sleeps
        /\ pc \in {"assemble", "script", "exit"} =>
             sleeps = Len(news_items) /\ Len(web) = Len(news_items))
  /\ [][/\ Len(web') # Len(web) => Len(web') = Len(web) + 1 /\ sleeps = Len(web)
        /\ sleeps' # sleeps => sleeps' = sleeps + 1 /\ clock' = clock + 10]_vars

C9_Witness ==
  /\ pc = "assemble"
  /\ Len(news_items) = 2
  /\ sleeps = 2
  /\ clock = 20
  /\ web[1].failAt = "download"
  /\ web[2].failAt = "none"


\* ------------------------------------------------ claims on the Cleaner
CleanReturned == clean.status = "returned"

MarkedRows == {i \in DOMAIN df.rows : Contains(df.rows[i]["full_text"], Marker)}

\* C3: the Cleaner returns exactly the raw rows whose full_text does not
\* contain the failure marker, in their original order: cleaned count =
\* raw count - number of raw rows with the marker, and cleaned row i is the
\* i-th raw row without the marker.
C3_CleanedRowsAreTheUnmarkedRows ==
  CleanReturned =>
    /\ Len(clean.frame.rows) = Len(df.rows) - Cardinality(MarkedRows)
    /\ Len(clean.frame.rows) = Len(Survivors)
    /\ \A i \in DOMAIN clean.frame.rows :
         /\ clean.frame.rows[i]["url"] = Survivors[i]["url"]
         /\ clean.frame.rows[i]["title"] = Survivors[i]["title"]
         /\ clean.frame.rows[i]["entity"] = Survivors[i]["entity"]

C3_Witness ==
  /\ CleanReturned
  /\ Len(df.rows) = 2
  /\ df.rows[1]["full_text"] = <<LF, M1, M2>>
  /\ df.rows[2]["full_text"] = <<>>
  /\ Len(clean.frame.rows) = 1
  /\ clean.frame.rows[1]["url"] = df.rows[2]["url"]

\* a raw row whose published date does not parse or whose publisher
\* structure is missing
Malformed(r) ==
  \/ "publisher" \notin DOMAIN r
  \/ "title" \notin DOMAIN r["publisher"]
  \/ r["published date"] = BadDate

\* C5 as stated: if any row of the raw table has an unparseable published
\* date or lacks the publisher structure, the call fails with an exception
\* and returns no table.
C5_AnyMalformedRowFailsTheCall ==
  (clean.status # "pending" /\ \E i \in DOMAIN df.rows : Malformed(df.rows[i])) =>
    clean.status = "raised"

\* C5 amended: if any row that survives the marker filter has an
\* unparseable published date or lacks the publisher structure, the call
\* fails with an exception and returns no table; a malformed row that
\* carries the marker is dropped before its date and publisher are read, so
\* when the table has the publisher column and every surviving row is well
\* formed the call returns the complete cleaned table.
C5_MalformedSurvivorFailsTheCall ==
  clean.status # "pending" =>
    /\ (\E i \in DOMAIN Survivors : Malformed(Survivors[i])) =>
         clean.status = "raised" /\ clean.line \in {97, 99}
    /\ ("publisher" \in Range(df.columns)
        /\ \A i \in DOMAIN Survivors : ~Malformed(Survivors[i])) =>
         CleanReturned /\ Len(clean.frame.rows) = Len(Survivors)
    /\ clean.status \in {"raised", "returned"}

C5_Witness ==
  /\ clean.status = "raised"
  /\ clean.line = 99
  /\ Len(df.rows) = 2
  /\ ~Malformed(df.rows[1])
  /\ df.rows[2]["published date"] = BadDate
  /\ ~Contains(df.rows[2]["full_text"], Marker)

\* a cleaned table that satisfies the precondition of the idempotence
\* claim: cleaned columns, no marker row, no LF, CR or backslash
Idempotable(t) ==
  /\ t.columns = FinalColumns
  /\ \A i \in DOMAIN t.rows :
       /\ ~Contains(t.rows[i]["full_text"], Marker)
       /\ Range(t.rows[i]["full_text"]) \cap {LF, CR, BS} = {}

\* C6 as stated: the Cleaner applied to a table of cleaned shape without
\* marker rows and without LF, CR or backslash returns a table equal to its
\* input; clean(clean(t)) = clean(t).
C6_CleanerIsIdempotent ==
  (again.status # "pending" /\ Idempotable(clean.frame)) =>
    again.status = "returned" /\ again.frame = clean.frame

\* C6 amended: the Cleaner applied to a table of cleaned shape never
\* returns: the cleaned shape has no publisher column, so the call raises
\* KeyError at the publisher lookup of line 97, for clean(t) of every raw
\* table t the Cleaner accepts.  Only the steps before that lookup are
\* idempotent: on a cleaned table without marker rows and without LF, CR or
\* backslash, the marker filter, the normalisation and the rename leave the
\* table as it was.
C6_SecondCleanRaisesAfterUnchangedNormalisation ==
  again.status # "pending" =>
    /\ again.status = "raised"
    /\ again.error = "KeyError"
    /\ again.line = 97
    /\ Idempotable(clean.frame) => again.frame = clean.frame

C6_Witness ==
  /\ again.status = "raised"
  /\ Idempotable(clean.frame)
  /\ Len(clean.frame.rows) = 2
  /\ clean.frame.rows[1]["full_text"] = <<PIPE, PIPE>>
  /\ clean.frame.rows[2]["full_text"] = <<M2, M1>>
  /\ again.frame = clean.frame

C8_CleanedColumnsAreFixed ==
  CleanReturned =>
    /\ clean.frame.columns = <<"entity", "source_publisher", "title", "full_text",
                               "url", "published_time", "published_date", "image_url">>
    /\ \A i \in DOMAIN clean.frame.rows :
         DOMAIN clean.frame.rows[i] =
           {"entity", "source_publisher", "title", "full_text", "url",
            "published_time", "published_date", "image_url"}

C8_Witness ==
  /\ CleanReturned
  /\ "description" \in Range(df.columns)
  /\ Len(df.rows) = 1
  /\ clean.frame.rows = <<>>
  /\ Len(clean.frame.columns) = 8

====
